---------------------------- MODULE Spec2Model ----------------------------
(***************************************************************************)
(* Newton fractal renderer (src/src/main.cpp): argument parsing, the roots *)
(* of unity, the output buffers, the kernel launch, the serial colouring   *)
(* loop and hsv_to_rgb.  The kernel itself (src/fractal.ispc, named by the *)
(* build file src/unnamed/part_000 line 6) is not among the sources; its   *)
(* per-pixel Newton iteration is modelled from sections 4.1 and 5 of the   *)
(* specification.                                                          *)
(*                                                                         *)
(* Numbers.  The kernel's floats are fixed-point integers in units of      *)
(* 1/Scale, every product and quotient rounded to the nearest unit, so     *)
(* that rounding, "numerically zero" and a tolerance below the resolution  *)
(* of the arithmetic all exist in the model.  The colouring arithmetic     *)
(* (hue, value, p, q, t) is exact rational arithmetic, <<num, den>> with   *)
(* den > 0, and gamma is a natural number so that pow is repeated          *)
(* multiplication.                                                         *)
(***************************************************************************)
EXTENDS Integers, Sequences, FiniteSets

VARIABLES
    pc,            \* position of main(): parse, roots, alloc, launch, kernel, post, write, done
    argv,          \* argv[1..6] as the numbers atoi/stod/stof read from them
    cfg,           \* n, width, height, max_iterations, tolerance, gamma (main.cpp 83-88)
    roots,         \* std::vector<Complex> roots
    output_root,   \* std::vector<int> output_root
    output_iters,  \* std::vector<int> output_iters
    image_data,    \* std::vector<RGB> image_data
    idx,           \* the colouring loop's i
    part,          \* the kernel's partition: worker 0 owns [0, part), worker 1 owns [part, N)
    wnext,         \* per worker, the next pixel index it evaluates
    hist,          \* history: writes per slot, writer of each slot, reads of unwritten slots
    hsv,           \* the locals of the latest hsv_to_rgb call
    run            \* one per-pixel Newton loop, one update per step; updates counts them

vars == <<pc, argv, cfg, roots, output_root, output_iters, image_data, idx,
          part, wnext, hist, hsv, run>>

-----------------------------------------------------------------------------
(* Bounds of the model *)

MaxN == 3
MaxDim == 2
MaxIter == 2
MaxGamma == 1
MaxColorGamma == 2

\* Tolerances in units of 1/Scale: 0 (rejected by no one), 0.05 (its square is
\* below the resolution of the float grid), 1.0, 3.0 (wider than the root spacing)
Tolerances == {0, 5, 100, 300}

-----------------------------------------------------------------------------
(* float arithmetic of the kernel: fixed point, round to nearest *)

Scale == 100

\* a / b rounded to the nearest integer (b # 0)
RDiv(a, b) ==
    IF b > 0 THEN (a + b \div 2) \div b
    ELSE ((0 - a) + (0 - b) \div 2) \div (0 - b)

\* x * y in units of 1/Scale; the split keeps every intermediate within 32 bits
FMul(x, y) == (x \div Scale) * y + RDiv((x % Scale) * y, Scale)

Abs(x) == IF x < 0 THEN 0 - x ELSE x

\* struct Complex { float r, i; }; nan marks a value with a NaN component
C(re, im) == [r |-> re, i |-> im, nan |-> FALSE]

NaNComplex == [r |-> 0, i |-> 0, nan |-> TRUE]

One == C(Scale, 0)

CSub(a, b) == C(a.r - b.r, a.i - b.i)

CMul(a, b) == C(FMul(a.r, b.r) - FMul(a.i, b.i), FMul(a.r, b.i) + FMul(a.i, b.r))

CScale(k, a) == C(k * a.r, k * a.i)

NormSq(a) == FMul(a.r, a.r) + FMul(a.i, a.i)

DistSq(a, b) == NormSq(CSub(a, b))

RECURSIVE CPow(_, _)
\* z^k by repeated complex multiplication
CPow(z, k) == IF k <= 0 THEN One ELSE CMul(CPow(z, k - 1), z)

\* a / b, b not numerically zero, scaled by the larger component of b
CDiv(a, b) ==
    IF Abs(b.r) >= Abs(b.i)
    THEN LET q == RDiv(b.i * Scale, b.r)
             den == b.r + FMul(b.i, q)
         IN  C(RDiv((a.r + FMul(a.i, q)) * Scale, den),
               RDiv((a.i - FMul(a.r, q)) * Scale, den))
    ELSE LET q == RDiv(b.r * Scale, b.i)
             den == b.i + FMul(b.r, q)
         IN  C(RDiv((FMul(a.r, q) + a.i) * Scale, den),
               RDiv((FMul(a.i, q) - a.r) * Scale, den))

-----------------------------------------------------------------------------
(* main.cpp 107-116: the viewport and the roots of unity *)

XMin == -5
XMax == 5
YMin == -5
YMax == 5

\* (float)(tolerance * tolerance): the double product narrowed to the float grid
ToleranceSq(tolerance) == RDiv(tolerance * tolerance, Scale)

\* (float)cos(2 pi k / n) and (float)sin(2 pi k / n) in units of 1/Scale, n in 1..5
CosTable ==
    << <<100>>, <<100, -100>>, <<100, -50, -50>>, <<100, 0, -100, 0>>,
       <<100, 31, -81, -81, 31>> >>

SinTable ==
    << <<0>>, <<0, 0>>, <<0, 87, -87>>, <<0, 100, 0, -100>>,
       <<0, 95, 59, -59, -95>> >>

\* a root with the two components exchanged
RootOfUnitySwapped(k, n) == C(SinTable[n][k + 1], CosTable[n][k + 1])

\* roots[k] = {(float)cos(angle), (float)sin(angle)}, angle = 2 pi k / n
RootOfUnity(k, n) == C(CosTable[n][k + 1], SinTable[n][k + 1])

Roots(n) == [k \in 0 .. n - 1 |-> RootOfUnity(k, n)]

-----------------------------------------------------------------------------
(* The kernel, newton_fractal_ispc: specification sections 4.1 and 5 *)

\* One viewport coordinate of pixel p of dim: lo + p/(dim-1) * (hi-lo)
PixelCoord(p, dim, lo, hi) ==
    lo * Scale + FMul(RDiv(p * Scale, dim - 1), (hi - lo) * Scale)

\* With one column or one row the interpolation divides 0 by 0: NaN
PixelToComplex(px, py, ka) ==
    IF ka.width = 1 \/ ka.height = 1
    THEN NaNComplex
    ELSE C(PixelCoord(px, ka.width, ka.x_min, ka.x_max),
           PixelCoord(py, ka.height, ka.y_min, ka.y_max))

\* Row-major slot of a pixel and back
PixelX(slot, width) == slot % width
PixelY(slot, width) == slot \div width

RECURSIVE ScanRootsDown(_, _, _)
\* a scan from the last root to the first
ScanRootsDown(z, ka, k) ==
    IF k < 0 THEN -1
    ELSE IF DistSq(z, ka.roots[k]) < ka.tolerance_sq THEN k
    ELSE ScanRootsDown(z, ka, k - 1)

MatchRootLast(z, ka) == IF z.nan THEN -1 ELSE ScanRootsDown(z, ka, ka.n - 1)

RECURSIVE ScanRoots(_, _, _)
\* roots in index order, stop at the first whose squared distance is below tolerance_sq
ScanRoots(z, ka, k) ==
    IF k >= ka.n THEN -1
    ELSE IF DistSq(z, ka.roots[k]) < ka.tolerance_sq THEN k
    ELSE ScanRoots(z, ka, k + 1)

\* index of the matching root, -1 if none; every comparison with NaN is false
MatchRoot(z, ka) == IF z.nan THEN -1 ELSE ScanRoots(z, ka, 0)

\* f'(z) = n z^(n-1) is numerically zero: its squared magnitude rounds to 0
DerivZero(z, ka) ==
    /\ ~z.nan
    /\ NormSq(CScale(ka.n, CPow(z, ka.n - 1))) = 0

\* z - f(z)/f'(z), f(z) = z^n - 1
NewtonUpdate(z, ka) ==
    IF z.nan THEN z
    ELSE LET f  == CSub(CPow(z, ka.n), One)
             fp == CScale(ka.n, CPow(z, ka.n - 1))
         IN  CSub(z, CDiv(f, fp))

RECURSIVE NewtonLoop(_, _, _)
\* the per-pixel loop from iterate z with iter updates done
NewtonLoop(z, iter, ka) ==
    IF iter >= ka.max_iterations
    THEN [root_index |-> -1, iterations |-> ka.max_iterations]
    ELSE IF DerivZero(z, ka)
    THEN [root_index |-> -1, iterations |-> iter]
    ELSE LET z1 == NewtonUpdate(z, ka)
             k  == MatchRoot(z1, ka)
         IN  IF k # -1
             THEN [root_index |-> k, iterations |-> iter + 1]
             ELSE NewtonLoop(z1, iter + 1, ka)

\* PixelResult of one slot
SolvePixel(slot, ka) ==
    NewtonLoop(PixelToComplex(PixelX(slot, ka.width), PixelY(slot, ka.width), ka), 0, ka)

-----------------------------------------------------------------------------
(* main.cpp 23-78 and 138-161: the colouring arithmetic, exact rationals *)

\* (int)x of the rational a/b, b > 0: truncation toward zero
TruncDiv(a, b) == IF a >= 0 THEN a \div b ELSE 0 - ((0 - a) \div b)

\* C's a % b: the sign of the dividend
CRem(a, b) == a - b * TruncDiv(a, b)

RMul(x, y) == <<x[1] * y[1], x[2] * y[2]>>

OneMinus(x) == <<x[2] - x[1], x[2]>>

RECURSIVE RPow(_, _)
\* pow(x, g) for a natural g; pow(x, 0) is 1
RPow(x, g) == IF g <= 0 THEN <<1, 1>> ELSE RMul(RPow(x, g - 1), x)

\* x scaled by 256
Scale256(x) == <<256 * x[1], x[2]>>

\* x *= 255
Scale255(x) == <<255 * x[1], x[2]>>

\* (unsigned char)x: truncated, and reduced to 8 bits when out of range
ToUChar(x) == TruncDiv(x[1], x[2]) % 256

\* float saturation = 0.9f
Saturation == <<9, 10>>

\* float hue = (float)root_index / (float)n
Hue(root_index, n) == <<root_index, n>>

\* value without the complement
ValueRising(iters, max_iterations, gamma) == RPow(<<iters, max_iterations>>, gamma)

\* float value = 1.0f - (float)iters / (float)max_iterations; value = pow(value, gamma)
Value(iters, max_iterations, gamma) ==
    RPow(OneMinus(<<iters, max_iterations>>), gamma)

\* The locals of hsv_to_rgb(h, s, v) as the switch finds them
HsvLocals(h, s, v) ==
    LET i0 == TruncDiv(6 * h[1], h[2])                  \* int i = (int)(h * 6.0f)
        f  == <<6 * h[1] - i0 * h[2], h[2]>>            \* float f = (h * 6.0f) - i
        p  == RMul(v, OneMinus(s))                      \* v * (1 - s)
        q  == RMul(v, OneMinus(RMul(s, f)))             \* v * (1 - s * f)
        t  == RMul(v, OneMinus(RMul(s, OneMinus(f))))   \* v * (1 - s * (1 - f))
    IN  [called |-> TRUE, h |-> h, s |-> s, value |-> v, i0 |-> i0,
         i |-> CRem(i0, 6),                             \* i %= 6
         v |-> Scale255(v), p |-> Scale255(p), q |-> Scale255(q),
         t |-> Scale255(t)]

NoHsv == [called |-> FALSE]

RGB(r, g, b) == [r |-> r, g |-> g, b |-> b]

\* RGB hsv_to_rgb(float h, float s, float v)
HsvToRgb(h, s, v) ==
    IF s[1] = 0
    THEN RGB(ToUChar(Scale255(v)), ToUChar(Scale255(v)), ToUChar(Scale255(v)))
    ELSE LET l == HsvLocals(h, s, v)
         IN  CASE l.i = 0 -> RGB(ToUChar(l.v), ToUChar(l.t), ToUChar(l.p))
               [] l.i = 1 -> RGB(ToUChar(l.q), ToUChar(l.v), ToUChar(l.p))
               [] l.i = 2 -> RGB(ToUChar(l.p), ToUChar(l.v), ToUChar(l.t))
               [] l.i = 3 -> RGB(ToUChar(l.p), ToUChar(l.q), ToUChar(l.v))
               [] l.i = 4 -> RGB(ToUChar(l.t), ToUChar(l.p), ToUChar(l.v))
               [] OTHER   -> RGB(ToUChar(l.v), ToUChar(l.p), ToUChar(l.q))

\* the test of the colouring loop taken for root 0 instead of -1
IsUnconvergedZero(root_index) == root_index = 0

\* if (root_index == -1)
IsUnconverged(root_index) == root_index = -1

\* The body of the colouring loop for one pixel
Colorize(root_index, iters, c) ==
    IF IsUnconverged(root_index)
    THEN RGB(0, 0, 0)
    ELSE HsvToRgb(Hue(root_index, c.n), Saturation,
                  Value(iters, c.max_iterations, c.gamma))

\* The locals hsv_to_rgb leaves behind for that pixel, none on the black branch
ColorizeLocals(root_index, iters, c) ==
    IF IsUnconverged(root_index)
    THEN NoHsv
    ELSE HsvLocals(Hue(root_index, c.n), Saturation,
                   Value(iters, c.max_iterations, c.gamma))

-----------------------------------------------------------------------------
(* main(): state and steps *)

Workers == {0, 1}

\* The locals of main.cpp 83-88 before any argument is read; the default
\* tolerance is below the resolution of the model's grid and is always overwritten
DefaultConfig ==
    [n |-> 5, width |-> 1655, height |-> 1655, max_iterations |-> 100,
     tolerance |-> "1e-6", gamma |-> 4]

\* Argument lists: six numbers, each possibly one the program has no use for
ArgLists ==
    {<<n, w, h, m, t, g>> :
        n \in 0 .. MaxN, w \in 0 .. MaxDim, h \in 0 .. MaxDim,
        m \in 0 .. MaxIter, t \in Tolerances, g \in 0 .. MaxGamma}

NoRun == [st |-> "none"]

NoHist == [kernel_writes |-> <<>>, image_writes |-> <<>>, writer |-> <<>>,
           early_reads |-> 0]

Init ==
    /\ pc = "parse"
    /\ argv \in ArgLists
    /\ cfg = DefaultConfig
    /\ roots = <<>>
    /\ output_root = <<>>
    /\ output_iters = <<>>
    /\ image_data = <<>>
    /\ idx = 0
    /\ part = 0
    /\ wnext = [w \in Workers |-> 0]
    /\ hist = NoHist
    /\ hsv = NoHsv
    /\ run = NoRun

\* width * height
NumPixels(c) == c.width * c.height

Slots(c) == 0 .. NumPixels(c) - 1

\* main.cpp 92-97: argc is 7, every default is overwritten; nothing is rejected
ParseArgs ==
    /\ pc = "parse"
    /\ cfg' = [n |-> argv[1], width |-> argv[2], height |-> argv[3],
               max_iterations |-> argv[4], tolerance |-> argv[5], gamma |-> argv[6]]
    /\ pc' = "roots"
    /\ UNCHANGED <<argv, roots, output_root, output_iters, image_data, idx,
                   part, wnext, hist, hsv, run>>

\* main.cpp 112-116
ComputeRoots ==
    /\ pc = "roots"
    /\ roots' = Roots(cfg.n)
    /\ pc' = "alloc"
    /\ UNCHANGED <<argv, cfg, output_root, output_iters, image_data, idx,
                   part, wnext, hist, hsv, run>>

\* main.cpp 119-120: both vectors value-initialised to 0
AllocOutputs ==
    /\ pc = "alloc"
    /\ output_root' = [s \in Slots(cfg) |-> 0]
    /\ output_iters' = [s \in Slots(cfg) |-> 0]
    /\ hist' = [kernel_writes |-> [s \in Slots(cfg) |-> 0],
                image_writes |-> [s \in Slots(cfg) |-> 0],
                writer |-> [s \in Slots(cfg) |-> -1],
                early_reads |-> 0]
    /\ pc' = "launch"
    /\ UNCHANGED <<argv, cfg, roots, image_data, idx, part, wnext, hsv, run>>

\* the launch with one iteration too many
KernelArgsOneMore(c, rts) ==
    [width |-> c.width, height |-> c.height, n |-> c.n, roots |-> rts,
     max_iterations |-> c.max_iterations + 1,
     tolerance_sq |-> ToleranceSq(c.tolerance),
     x_min |-> XMin, x_max |-> XMax, y_min |-> YMin, y_max |-> YMax]

\* main.cpp 126-129: the arguments of ispc::newton_fractal_ispc
KernelArgs(c, rts) ==
    [width |-> c.width, height |-> c.height, n |-> c.n, roots |-> rts,
     max_iterations |-> c.max_iterations,
     tolerance_sq |-> ToleranceSq(c.tolerance),
     x_min |-> XMin, x_max |-> XMax, y_min |-> YMin, y_max |-> YMax]

\* The kernel's partition of the flat pixel range into two contiguous ranges
Owner(slot) == IF slot < part THEN 0 ELSE 1

RangeEnd(w) == IF w = 0 THEN part ELSE NumPixels(cfg)

\* The call of main.cpp 126: the workers start, each at the head of its range
KernelLaunch ==
    /\ pc = "launch"
    /\ \E cut \in 0 .. NumPixels(cfg) :
          /\ part' = cut
          /\ wnext' = [w \in Workers |-> IF w = 0 THEN 0 ELSE cut]
    /\ pc' = "kernel"
    /\ UNCHANGED <<argv, cfg, roots, output_root, output_iters, image_data,
                   idx, hist, hsv, run>>

\* One worker evaluates its next pixel and writes both output slots
WorkerStep(w) ==
    /\ pc = "kernel"
    /\ wnext[w] < RangeEnd(w)
    /\ LET s == wnext[w]
           r == SolvePixel(s, KernelArgs(cfg, roots))
       IN  /\ output_root' = [output_root EXCEPT ![s] = r.root_index]
           /\ output_iters' = [output_iters EXCEPT ![s] = r.iterations]
           /\ hist' = [hist EXCEPT !.kernel_writes[s] = @ + 1, !.writer[s] = w]
    /\ wnext' = [wnext EXCEPT ![w] = @ + 1]
    /\ UNCHANGED <<pc, argv, cfg, roots, image_data, idx, part, hsv, run>>

\* a call that returns while workers are still running
KernelReturnsEarly == TRUE

\* The call of main.cpp 126 returns when every worker has finished its range
KernelFinished == \A w \in Workers : wnext[w] = RangeEnd(w)

\* main.cpp 131-137: the call has returned; image_data is allocated, i = 0
KernelReturn ==
    /\ pc = "kernel"
    /\ KernelFinished
    /\ image_data' = [s \in Slots(cfg) |-> RGB(0, 0, 0)]
    /\ idx' = 0
    /\ pc' = "post"
    /\ UNCHANGED <<argv, cfg, roots, output_root, output_iters, part, wnext,
                   hist, hsv, run>>

\* ++i
NextIndex(i) == i + 1

\* main.cpp 138-162: one pass of the colouring loop
PostProcessStep ==
    /\ pc = "post"
    /\ idx < NumPixels(cfg)
    /\ LET root_index == output_root[idx]
           iters      == output_iters[idx]
       IN  /\ image_data' = [image_data EXCEPT ![idx] = Colorize(root_index, iters, cfg)]
           /\ hsv' = ColorizeLocals(root_index, iters, cfg)
    /\ hist' = [hist EXCEPT !.image_writes[idx] = @ + 1,
                            !.early_reads = @ + (IF hist.kernel_writes[idx] = 0 THEN 1 ELSE 0)]
    /\ idx' = NextIndex(idx)
    /\ UNCHANGED <<pc, argv, cfg, roots, output_root, output_iters, part,
                   wnext, run>>

\* main.cpp 165-171: the loop is over, the image is handed to the encoder
WriteImage ==
    /\ pc = "post"
    /\ idx >= NumPixels(cfg)
    /\ pc' = "done"
    /\ UNCHANGED <<argv, cfg, roots, output_root, output_iters, image_data,
                   idx, part, wnext, hist, hsv, run>>

Next ==
    \/ ParseArgs
    \/ ComputeRoots
    \/ AllocOutputs
    \/ KernelLaunch
    \/ \E w \in Workers : WorkerStep(w)
    \/ KernelReturn
    \/ PostProcessStep
    \/ WriteImage

Spec == Init /\ [][Next]_vars

-----------------------------------------------------------------------------
(* One per-pixel Newton loop of the kernel, one update per step            *)
(* (specification 4.1, steps 2 to 4)                                       *)

\* Viewport coordinates the pixel grids of 2 .. MaxDim+1 columns produce
GridCoords ==
    UNION {{PixelCoord(p, d, XMin, XMax) : p \in 0 .. d - 1} : d \in 2 .. MaxDim + 1}

\* Starting points: pixels of those grids, and the pixel of a one-column grid
SeedPoints == {C(x, y) : x \in GridCoords, y \in GridCoords} \cup {NaNComplex}

SolverInit ==
    /\ pc = "solver"
    /\ argv = <<>>
    /\ \E n \in 1 .. MaxN, m \in 1 .. MaxIter, t \in Tolerances \ {0} :
          /\ cfg = [n |-> n, width |-> MaxDim, height |-> MaxDim,
                    max_iterations |-> m, tolerance |-> t, gamma |-> 1]
          /\ roots = Roots(n)
          /\ \/ \E z \in SeedPoints :
                   run = [st |-> "iterating", z |-> z, iter |-> 0,
                          root_index |-> -1, updates |-> 0, seed |-> z,
                          seed_root |-> -1]
             \/ \E k \in 0 .. n - 1 :
                   run = [st |-> "iterating", z |-> Roots(n)[k], iter |-> 0,
                          root_index |-> -1, updates |-> 0,
                          seed |-> Roots(n)[k], seed_root |-> k]
    /\ output_root = <<>>
    /\ output_iters = <<>>
    /\ image_data = <<>>
    /\ idx = 0
    /\ part = 0
    /\ wnext = [w \in Workers |-> 0]
    /\ hist = NoHist
    /\ hsv = NoHsv

Iterating == run.st = "iterating"

\* The arguments the loop runs with: those of the launch
RunArgs == KernelArgs(cfg, roots)

\* iter < max_iterations
BudgetLeft == run.iter < RunArgs.max_iterations

\* The budget is exhausted with no match: (-1, max_iterations)
NewtonExhausted ==
    /\ Iterating
    /\ ~BudgetLeft
    /\ run' = [run EXCEPT !.st = "done", !.root_index = -1,
                          !.iter = RunArgs.max_iterations]
    /\ UNCHANGED <<pc, argv, cfg, roots, output_root, output_iters, image_data,
                   idx, part, wnext, hist, hsv>>

\* The derivative is numerically zero: stop early, unconverged
NewtonZeroDerivative ==
    /\ Iterating
    /\ BudgetLeft
    /\ DerivZero(run.z, RunArgs)
    /\ run' = [run EXCEPT !.st = "done", !.root_index = -1]
    /\ UNCHANGED <<pc, argv, cfg, roots, output_root, output_iters, image_data,
                   idx, part, wnext, hist, hsv>>

\* One update, then the convergence test: stop at a match, go on otherwise
NewtonUpdateStep ==
    /\ Iterating
    /\ BudgetLeft
    /\ ~DerivZero(run.z, RunArgs)
    /\ LET z1 == NewtonUpdate(run.z, RunArgs)
           k  == MatchRoot(z1, RunArgs)
       IN  run' = [run EXCEPT !.z = z1, !.iter = @ + 1, !.root_index = k,
                              !.updates = @ + 1,
                              !.st = IF k # -1 THEN "done" ELSE "iterating"]
    /\ UNCHANGED <<pc, argv, cfg, roots, output_root, output_iters, image_data,
                   idx, part, wnext, hist, hsv>>

SolverNext == NewtonExhausted \/ NewtonZeroDerivative \/ NewtonUpdateStep

SolverSpec == SolverInit /\ [][SolverNext]_vars

-----------------------------------------------------------------------------
(* The colouring loop of main.cpp 138-162 over arbitrary PixelResults      *)

ColorInit ==
    /\ pc = "post"
    /\ argv = <<>>
    /\ \E n \in 1 .. MaxN, m \in 1 .. MaxIter, g \in 1 .. MaxColorGamma :
          /\ cfg = [n |-> n, width |-> 2, height |-> 1, max_iterations |-> m,
                    tolerance |-> Scale, gamma |-> g]
          /\ roots = Roots(n)
          /\ output_root \in [0 .. 1 -> -1 .. n - 1]
          /\ output_iters \in [0 .. 1 -> 0 .. m]
    /\ image_data = [s \in 0 .. 1 |-> RGB(0, 0, 0)]
    /\ idx = 0
    /\ part = 0
    /\ wnext = [w \in Workers |-> IF w = 0 THEN 0 ELSE 2]
    /\ hist = [kernel_writes |-> [s \in 0 .. 1 |-> 1],
               image_writes |-> [s \in 0 .. 1 |-> 0],
               writer |-> [s \in 0 .. 1 |-> 1],
               early_reads |-> 0]
    /\ hsv = NoHsv
    /\ run = NoRun

ColorNext == PostProcessStep \/ WriteImage

ColorSpec == ColorInit /\ [][ColorNext]_vars

-----------------------------------------------------------------------------
(* Properties *)

\* A well-formed RenderConfig (specification sections 3 and 7)
ValidConfig(c) ==
    /\ c.n >= 1
    /\ c.width >= 1
    /\ c.height >= 1
    /\ c.max_iterations >= 1
    /\ c.tolerance > 0
    /\ c.gamma > 0

KernelDone == pc \in {"post", "done"}

InCore == pc \in {"roots", "alloc", "launch", "kernel", "post", "done"}

RunDone == pc = "solver" /\ run.st = "done"

MaxChannel(c) ==
    IF c.r >= c.g /\ c.r >= c.b THEN c.r ELSE IF c.g >= c.b THEN c.g ELSE c.b

\* The step-by-step loop and NewtonLoop give the same PixelResult
StepperAgrees ==
    RunDone =>
        NewtonLoop(run.seed, 0, RunArgs) =
            [root_index |-> run.root_index, iterations |-> run.iter]

\* C1: once the kernel has run over the grid of a well-formed configuration,
\* every slot holds a root_index in -1 .. n-1 and an iteration_count in
\* 0 .. max_iterations.
C1_OutputsInRange ==
    (KernelDone /\ ValidConfig(cfg)) =>
        \A s \in Slots(cfg) :
            /\ output_root[s] \in -1 .. cfg.n - 1
            /\ output_iters[s] \in 0 .. cfg.max_iterations

C1_Witness ==
    /\ pc = "done"
    /\ ValidConfig(cfg)
    /\ \E s \in Slots(cfg) : output_root[s] >= 1 /\ output_iters[s] = cfg.max_iterations
    /\ \E s \in Slots(cfg) : output_root[s] = 0

\* C2: a pixel whose root_index is -1 is coloured black (0,0,0), whatever its
\* iteration_count, n, max_iterations and gamma.
C2_UnconvergedIsBlack ==
    \A s \in DOMAIN image_data :
        (hist.image_writes[s] = 1 /\ output_root[s] = -1) =>
            image_data[s] = RGB(0, 0, 0)

C2_Witness ==
    /\ pc = "done"
    /\ cfg.gamma = 2
    /\ output_root[0] = -1 /\ output_iters[0] = 0
    /\ output_root[1] = -1 /\ output_iters[1] = cfg.max_iterations
    /\ image_data[0] = RGB(0, 0, 0)

\* C3: the core (root generation, allocation, kernel, colouring) is only ever
\* entered with a validated configuration.
C3_CoreOnlyWithValidConfig == InCore => ValidConfig(cfg)

\* C4: with n = 1 every pixel of a well-formed configuration ends with
\* root_index 0 and an iteration_count of at most max_iterations.
C4_SingleRootAlwaysConverges ==
    (KernelDone /\ ValidConfig(cfg) /\ cfg.n = 1) =>
        \A s \in Slots(cfg) :
            output_root[s] = 0 /\ output_iters[s] <= cfg.max_iterations

\* C5: for one root_index and gamma = 1, the pixel with the smaller
\* iteration_count has a value channel (largest RGB channel) at least as large.
C5_BrightnessMonotonic ==
    (/\ pc = "done"
     /\ cfg.gamma = 1
     /\ output_root[0] = output_root[1]
     /\ output_root[0] # -1
     /\ output_iters[0] <= output_iters[1]) =>
        MaxChannel(image_data[0]) >= MaxChannel(image_data[1])

C5_Witness ==
    /\ pc = "done"
    /\ cfg.gamma = 1
    /\ output_root[0] = output_root[1]
    /\ output_root[0] >= 1
    /\ output_iters[0] < output_iters[1]
    /\ MaxChannel(image_data[0]) > MaxChannel(image_data[1])
    /\ MaxChannel(image_data[1]) > 0

C8_LoopOutcome ==
    pc = "solver" =>
        /\ run.updates \in 0 .. cfg.max_iterations
        /\ Iterating => run.iter = run.updates
        /\ (Iterating /\ run.updates > 0) => MatchRoot(run.z, RunArgs) = -1
        /\ RunDone =>
              /\ run.root_index \in -1 .. cfg.n - 1
              /\ run.root_index = -1 =>
                    \/ /\ run.iter < cfg.max_iterations
                       /\ run.iter = run.updates
                       /\ DerivZero(run.z, RunArgs)
                    \/ /\ run.iter = cfg.max_iterations
                       /\ run.updates = cfg.max_iterations
                       /\ MatchRoot(run.z, RunArgs) = -1
              /\ run.root_index # -1 =>
                    /\ run.updates >= 1
                    /\ run.iter = run.updates
                    /\ MatchRoot(run.z, RunArgs) = run.root_index

C8_Witness ==
    /\ RunDone
    /\ run.root_index = -1
    /\ run.iter < cfg.max_iterations
    /\ cfg.n >= 2

\* C9: when the iterate is within tolerance of several roots the run returns
\* the smallest index among them.
C9_LowestMatchingRootWins ==
    (RunDone /\ run.root_index # -1) =>
        \A j \in 0 .. cfg.n - 1 :
            DistSq(run.z, roots[j]) < RunArgs.tolerance_sq => j >= run.root_index

C9_Witness ==
    /\ RunDone
    /\ run.root_index # -1
    /\ run.seed_root = -1
    /\ \E j \in 0 .. cfg.n - 1 :
          j > run.root_index /\ DistSq(run.z, roots[j]) < RunArgs.tolerance_sq

InUnit(x) == 0 <= x[1] /\ x[1] <= x[2]

InByte(x) == 0 <= x[1] /\ x[1] <= 255 * x[2] /\ TruncDiv(x[1], x[2]) = ToUChar(x)

\* C10: for a converged pixel the hue is in [0,1), the sector in 0 .. 5, the
\* value in [0,1], and v, p, q, t scaled by 255 are in [0,255], so the
\* truncation to 8 bits changes nothing but the fraction.
C10_ChannelsInRange ==
    hsv.called =>
        /\ 0 <= hsv.h[1] /\ hsv.h[1] < hsv.h[2]
        /\ hsv.i0 \in 0 .. 5
        /\ hsv.i = hsv.i0
        /\ InUnit(hsv.value)
        /\ InByte(hsv.v) /\ InByte(hsv.p) /\ InByte(hsv.q) /\ InByte(hsv.t)

C10_Witness ==
    /\ hsv.called
    /\ hsv.i = 4
    /\ hsv.v = <<255, 1>>
    /\ cfg.gamma = 2

=============================================================================
